---- MODULE Spec2Model ----
(***************************************************************************)
(* Model of the trace-error crate: the Trace<E> container and the          *)
(* throw!/try_throw!/try_rethrow! propagation macros (src/src/lib.rs),     *)
(* and the backtrace formatting engine (src/src/backtrace.rs).             *)
(*                                                                         *)
(* Option<T> is a sequence of length at most one (None is empty, Some(x)   *)
(* holds x).  A str is a sequence of one-character strings, so that        *)
(* str::contains is a real substring search.                               *)
(***************************************************************************)
EXTENDS Integers, Sequences, FiniteSets, TLC

VARIABLES
    phase,      \* which operation of the formatting engine has run
    bt,         \* the SourceBacktrace / live stack being formatted
    call,       \* arguments of the last formatting call
    traces,     \* the String built by the last formatting call
    stack,      \* activations of traced functions, outermost first
    ret,        \* Option: the result handed back by the activation that just returned
    heap,       \* live Box<SourceBacktrace> allocations, indexed by address
    captures,   \* number of Backtrace::new() stack captures performed so far
    events      \* what the last propagation step did

fmtVars  == <<phase, bt, call, traces>>
propVars == <<stack, ret, heap, captures, events>>
vars     == <<phase, bt, call, traces, stack, ret, heap, captures, events>>

None == <<>>
Some(x) == <<x>>
IsSome(o) == Len(o) = 1
Unwrap(o) == o[1]

(***************************************************************************)
(* Bounds of the model.                                                    *)
(***************************************************************************)
MaxSymbols == 3       \* symbols a captured Backtrace resolves to, over all its frames
MaxTraceFrames == 4   \* frames of the live stack walked by format_trace
MaxCount == 2         \* largest index handed to real_format
MaxDepth == 3         \* nesting of traced function calls
MaxCaptures == 2      \* stack captures performed in one run

(***************************************************************************)
(* Strings.                                                                *)
(***************************************************************************)
str_trace     == <<"t","r","a","c","e">>
str_main      == <<"m","a","i","n">>
str_new       == <<"B","a","c","k","t","r","a","c","e",":",":","n","e","w">>
str_src_new   == <<"S","o","u","r","c","e">> \o str_new
str_unknown   == <<"<","u","n","k","n","o","w","n",">">>
SelfPattern   == str_new

\* str::contains(pat)
Contains(s, pat) ==
    \E i \in 0..(Len(s) - Len(pat)) : SubSeq(s, i + 1, i + Len(pat)) = pat

\* SymbolName::as_str: None when the bytes are not UTF-8
as_str(name) == IF name.utf8 THEN Some(name.bytes) ELSE None

Utf8(s) == [utf8 |-> TRUE, bytes |-> s]
Raw(s)  == [utf8 |-> FALSE, bytes |-> s]

(***************************************************************************)
(* Symbol records produced by the resolver: every field is optional.       *)
(***************************************************************************)
Sym(name, addr, filename, lineno) ==
    [name |-> name, addr |-> addr, filename |-> filename, lineno |-> lineno]

symTrace  == Sym(Some(Utf8(str_trace)),   Some(16), Some("backtrace.rs"), Some(5))
symNew    == Sym(Some(Utf8(str_new)),     Some(32), None,                 None)
symSrcNew == Sym(Some(Utf8(str_src_new)), Some(48), Some("backtrace.rs"), Some(155))
symMain   == Sym(Some(Utf8(str_main)),    Some(64), Some("basic.rs"),     None)
symAnon   == Sym(None,                    None,     None,                 Some(7))
symRaw    == Sym(Some(Raw(str_new)),      Some(80), None,                 None)

SymbolPool == {symSrcNew, symMain, symAnon, symRaw}

SeqsUpTo(S, n) == UNION {[1..k -> S] : k \in 0..n}

\* A frame: `symbols` is what resolving frame.ip() yields (BacktraceFrame::symbols
\* for a captured frame), `sa` what resolving frame.symbol_address() yields.
Frame(symbols, sa) == [symbols |-> symbols, sa |-> sa]

\* The frames of a captured Backtrace that resolves to `syms`: a new frame
\* starts after every position in `cuts`, the other symbols are inlined into
\* the frame of their predecessor.
RECURSIVE Group(_, _, _, _)
Group(syms, cuts, i, frames) ==
    IF i > Len(syms) THEN frames
    ELSE IF i = 1 \/ (i - 1) \in cuts
         THEN Group(syms, cuts, i + 1, Append(frames, Frame(<<syms[i]>>, <<>>)))
         ELSE Group(syms, cuts, i + 1,
                    [frames EXCEPT ![Len(frames)] =
                        Frame(Append(@.symbols, syms[i]), <<>>)])

\* A frame that resolves to no symbol, after the first k frames (k < 0: none).
WithUnresolved(frames, k) ==
    IF k < 0 THEN frames
    ELSE SubSeq(frames, 1, k) \o <<Frame(<<>>, <<>>)>> \o SubSeq(frames, k + 1, Len(frames))

CapturedBacktraces ==
    UNION {UNION {{WithUnresolved(Group(syms, cuts, 1, <<>>), k) :
                      k \in -1..Len(Group(syms, cuts, 1, <<>>))} :
                  cuts \in SUBSET (1..(Len(syms) - 1))} :
           syms \in SeqsUpTo(SymbolPool, MaxSymbols)}

LiveFrames ==
    {Frame(s, a) : s \in {<<>>, <<symMain>>, <<symAnon, symMain>>},
                   a \in {<<>>, <<symTrace>>}}

\* struct SourceBacktrace
SourceBacktrace(backtrace, line, file) ==
    [backtrace |-> backtrace, line |-> line, file |-> file]

ThreadNames == {None, Some("main")}

(***************************************************************************)
(* The String under construction: an optional header line followed by the  *)
(* calls made to the per-symbol formatter, in order.  A call is recorded   *)
(* as the index passed and a reference to the symbol passed.               *)
(***************************************************************************)
Ref(frame, via, sub) == [frame |-> frame, via |-> via, sub |-> sub]

Deref(frames, r) ==
    IF r.via = "ip" THEN frames[r.frame].symbols[r.sub] ELSE frames[r.frame].sa[r.sub]

Emit(count, r) == [count |-> count, symbol |-> r]

EmptyString == [header |-> None, body |-> <<>>]

\* format!("Stack backtrace for task \"<{}>\" at line {} of \"{}\":\n", ...)
Header(header, thread, line, file) ==
    IF header
    THEN [header |-> Some([task |-> IF IsSome(thread) THEN Unwrap(thread) ELSE "unnamed",
                           line |-> line, file |-> file]),
          body |-> <<>>]
    ELSE EmptyString

IGNORE_COUNT == 1
TRACE_IGNORE_COUNT == 2

\* if let Some(name) = symbol.name() { if let Some(name_str) = name.as_str() {
\*     if name_str.contains("Backtrace::new") { continue; } } }
IsSelfFrame_exact(symbol) ==
    /\ IsSome(symbol.name)
    /\ IsSome(as_str(Unwrap(symbol.name)))
    /\ Unwrap(as_str(Unwrap(symbol.name))) = SelfPattern

IsSelfFrame(symbol) ==
    /\ IsSome(symbol.name)
    /\ IsSome(as_str(Unwrap(symbol.name)))
    /\ Contains(Unwrap(as_str(Unwrap(symbol.name))), SelfPattern)

\* Body of both symbol loops of SourceBacktrace::format: one visit of one symbol.
\* st is [count, traces].
VisitSymbol_countsElided(frames, st, r) ==
    IF st.count >= IGNORE_COUNT
    THEN IF IsSelfFrame(Deref(frames, r))
         THEN [st EXCEPT !.count = @ + 1]
         ELSE [count |-> st.count + 1,
               traces |-> [st.traces EXCEPT
                   !.body = Append(@, Emit(st.count - IGNORE_COUNT, r))]]
    ELSE [st EXCEPT !.count = @ + 1]

VisitSymbol_noFilter(frames, st, r) ==
    IF st.count >= IGNORE_COUNT
    THEN [count |-> st.count + 1,
          traces |-> [st.traces EXCEPT
              !.body = Append(@, Emit(st.count - IGNORE_COUNT, r))]]
    ELSE [st EXCEPT !.count = @ + 1]

VisitSymbol(frames, st, r) ==
    IF st.count >= IGNORE_COUNT
    THEN IF IsSelfFrame(Deref(frames, r))
         THEN st
         ELSE [count |-> st.count + 1,
               traces |-> [st.traces EXCEPT
                   !.body = Append(@, Emit(st.count - IGNORE_COUNT, r))]]
    ELSE [st EXCEPT !.count = @ + 1]

\* for symbol in frame.symbols() { ... }   (forward order)
RECURSIVE ForwardSymbols(_, _, _, _)
ForwardSymbols(frames, f, j, st) ==
    IF j > Len(frames[f].symbols) THEN st
    ELSE ForwardSymbols(frames, f, j + 1, VisitSymbol(frames, st, Ref(f, "ip", j)))

\* for frame in self.backtrace.frames() { ... }   (forward order)
RECURSIVE ForwardFrames(_, _, _)
ForwardFrames(frames, f, st) ==
    IF f > Len(frames) THEN st
    ELSE ForwardFrames(frames, f + 1, ForwardSymbols(frames, f, 1, st))

\* for symbol in frame.symbols() { symbols.push(symbol); }
RECURSIVE PushSymbols(_, _, _, _)
PushSymbols(frames, f, j, symbols) ==
    IF j > Len(frames[f].symbols) THEN symbols
    ELSE PushSymbols(frames, f, j + 1, Append(symbols, Ref(f, "ip", j)))

\* for frame in self.backtrace.frames() { for symbol in ... }
RECURSIVE CollectSymbols(_, _, _)
CollectSymbols(frames, f, symbols) ==
    IF f > Len(frames) THEN symbols
    ELSE CollectSymbols(frames, f + 1, PushSymbols(frames, f, 1, symbols))

\* symbols.iter().rev()
Rev(s) == [i \in 1..Len(s) |-> s[Len(s) + 1 - i]]

\* Walking the frames backward, each frame's symbols kept as a block.
RECURSIVE RevBlocks(_, _, _)
RevBlocks(frames, f, symbols) ==
    IF f < 1 THEN symbols
    ELSE RevBlocks(frames, f - 1, PushSymbols(frames, f, 1, symbols))

ReverseOrder_blocks(frames) == RevBlocks(frames, Len(frames), <<>>)

ReverseOrder(frames) == Rev(CollectSymbols(frames, 1, <<>>))

\* for symbol in symbols.iter().rev() { ... }
RECURSIVE ReverseSymbols(_, _, _, _)
ReverseSymbols(frames, order, i, st) ==
    IF i > Len(order) THEN st
    ELSE ReverseSymbols(frames, order, i + 1, VisitSymbol(frames, st, order[i]))

\* SourceBacktrace::format
Format(self, header, reverse, thread) ==
    LET st0 == [count |-> 0, traces |-> Header(header, thread, self.line, self.file)]
    IN  IF reverse
        THEN ReverseSymbols(self.backtrace, ReverseOrder(self.backtrace), 1, st0).traces
        ELSE ForwardFrames(self.backtrace, 1, st0).traces

\* resolve(addr, |symbol| { traces += Fmt::format(count - IGNORE_COUNT, &symbol); count += 1; })
RECURSIVE ResolveCb(_, _, _, _, _)
ResolveCb(frames, f, via, j, st) ==
    LET syms == IF via = "ip" THEN frames[f].symbols ELSE frames[f].sa
    IN  IF j > Len(syms) THEN st
        ELSE ResolveCb(frames, f, via, j + 1,
                 [count |-> st.count + 1,
                  traces |-> [st.traces EXCEPT
                      !.body = Append(@, Emit(st.count - TRACE_IGNORE_COUNT, Ref(f, via, j)))]])

\* The closure handed to trace() by format_trace: one physical frame.
TraceCb(frames, f, st) ==
    IF st.count < TRACE_IGNORE_COUNT
    THEN [st EXCEPT !.count = @ + 1]
    ELSE LET after == ResolveCb(frames, f, "ip", 1, st)
         IN  IF after.count = st.count
             THEN ResolveCb(frames, f, "sa", 1, after)
             ELSE after

\* trace(|frame| { ...; true })
RECURSIVE TraceFrames(_, _, _)
TraceFrames(frames, f, st) ==
    IF f > Len(frames) THEN st
    ELSE TraceFrames(frames, f + 1, TraceCb(frames, f, st))

\* format_trace
format_trace(frames, header, line, file, thread) ==
    TraceFrames(frames, 1, [count |-> 0, traces |-> Header(header, thread, line, file)]).traces

(***************************************************************************)
(* DefaultBacktraceFmt.  The rendered String is kept as its two halves:    *)
(* `begin` holds the three values interpolated by the first format! (the   *)
(* padding widths are layout only), `end` is the location line as text.    *)
(***************************************************************************)
NullAddr == 0

real_format_dropsLine(count, name, addr, filename, lineno) ==
    LET name_str == IF IsSome(name) /\ IsSome(as_str(Unwrap(name)))
                    THEN Unwrap(as_str(Unwrap(name))) ELSE str_unknown
        begin == [count |-> count,
                  addr |-> IF IsSome(addr) THEN Unwrap(addr) ELSE NullAddr,
                  name |-> name_str]
        end == IF IsSome(filename)
               THEN IF IsSome(lineno)
                    THEN <<"at ", Unwrap(filename), ":", ToString(Unwrap(lineno)), "\n">>
                    ELSE <<"at ", Unwrap(filename), "\n">>
               ELSE <<"at ", "<anonymous>", "\n">>
    IN  [begin |-> begin, end |-> end]

real_format(count, name, addr, filename, lineno) ==
    LET name_str == IF IsSome(name) /\ IsSome(as_str(Unwrap(name)))
                    THEN Unwrap(as_str(Unwrap(name))) ELSE str_unknown
        begin == [count |-> count,
                  addr |-> IF IsSome(addr) THEN Unwrap(addr) ELSE NullAddr,
                  name |-> name_str]
        end == IF IsSome(filename)
               THEN IF IsSome(lineno)
                    THEN <<"at ", Unwrap(filename), ":", ToString(Unwrap(lineno)), "\n">>
                    ELSE <<"at ", Unwrap(filename), "\n">>
               ELSE IF IsSome(lineno)
                    THEN <<"at ", "<anonymous>", ":", ToString(Unwrap(lineno)), "\n">>
                    ELSE <<"at ", "<anonymous>", "\n">>
    IN  [begin |-> begin, end |-> end]

\* impl BacktraceFmt for DefaultBacktraceFmt
format_captured(count, symbol) ==
    real_format(count, symbol.name, symbol.addr, symbol.filename, symbol.lineno)

(***************************************************************************)
(* The formatting engine as a state machine.  Init is an input of one of   *)
(* the three entry points; each action runs one of them to completion.     *)
(***************************************************************************)
NoCall == [op |-> "none", header |-> FALSE, reverse |-> FALSE, thread |-> None]

SymbolNames ==
    {None, Some(Utf8(str_main)), Some(Utf8(str_src_new)), Some(Raw(str_main))}

SymbolInputs ==
    {[count |-> c, symbol |-> Sym(n, a, f, l)] :
        c \in 0..MaxCount, n \in SymbolNames, a \in {None, Some(64)},
        f \in {None, Some("basic.rs")}, l \in {None, Some(47)}}

PropIdle ==
    /\ stack = <<>>
    /\ ret = None
    /\ heap = <<>>
    /\ captures = 0
    /\ events = [op |-> "none", branch |-> "none", line |-> 0, arg |-> None, val |-> None,
                 origin |-> None]

InitFmt ==
    /\ traces = EmptyString
    /\ call = NoCall
    /\ \/ /\ phase = "captured"
          /\ bt \in {SourceBacktrace(fs, 47, "examples/backtrace.rs") :
                        fs \in CapturedBacktraces}
       \/ /\ phase = "live"
          /\ bt \in {SourceBacktrace(fs, 47, "examples/backtrace.rs") :
                        fs \in SeqsUpTo(LiveFrames, MaxTraceFrames)}
       \/ /\ phase = "symbol"
          /\ bt \in SymbolInputs
    /\ PropIdle

\* self.format::<Fmt>(header, reverse) on a captured SourceBacktrace
DoFormat(header, reverse, thread) ==
    /\ phase = "captured"
    /\ phase' = "formatted"
    /\ call' = [op |-> "format", header |-> header, reverse |-> reverse, thread |-> thread]
    /\ traces' = Format(bt, header, reverse, thread)
    /\ UNCHANGED <<bt, propVars>>

\* backtrace!() / backtrace_noheader!(): format_trace::<Fmt>(header, line!(), file!())
DoFormatTrace(header, thread) ==
    /\ phase = "live"
    /\ phase' = "traced"
    /\ call' = [op |-> "format_trace", header |-> header, reverse |-> FALSE, thread |-> thread]
    /\ traces' = format_trace(bt.backtrace, header, bt.line, bt.file, thread)
    /\ UNCHANGED <<bt, propVars>>

\* DefaultBacktraceFmt::format_captured(count, &symbol)
DoFormatCaptured ==
    /\ phase = "symbol"
    /\ phase' = "rendered"
    /\ call' = [op |-> "format_captured", header |-> FALSE, reverse |-> FALSE, thread |-> None]
    /\ traces' = format_captured(bt.count, bt.symbol)
    /\ UNCHANGED <<bt, propVars>>

NextFmt ==
    \/ \E header \in BOOLEAN, reverse \in BOOLEAN, thread \in ThreadNames :
           DoFormat(header, reverse, thread)
    \/ \E header \in BOOLEAN, thread \in ThreadNames : DoFormatTrace(header, thread)
    \/ DoFormatCaptured

Spec == InitFmt /\ [][NextFmt]_vars

(***************************************************************************)
(* Error values.  io::Error is the foreign error of examples/basic.rs,     *)
(* MyErrorType the user's error enum; AppError stands for a second user    *)
(* error type with an analogous From impl, so that conversions can chain.  *)
(***************************************************************************)
IoError(kind)   == [type |-> "io::Error", variant |-> kind, inner |-> None]
MyErrorType(v)  == [type |-> "MyErrorType", variant |-> v, inner |-> None]

ErrTypes == {"MyErrorType", "AppError"}

\* From::from: the reflexive impl is the identity, a user impl wraps the
\* source error in a variant (MyErrorType::Io(err)).
From(err, O) ==
    IF err.type = O THEN err
    ELSE [type |-> O, variant |-> "Io", inner |-> Some(err)]

\* Error::description
RECURSIVE description(_)
description(err) ==
    IF IsSome(err.inner) THEN description(Unwrap(err.inner))
    ELSE CASE err.variant = "ErrorOne" -> "Error One"
           [] err.variant = "ErrorTwo" -> "Error Two"
           [] OTHER -> "entity not found"

\* Result::Ok / Result::Err
Ok(v)  == [ok |-> TRUE,  val |-> Some(v), err |-> None]
Err(e) == [ok |-> FALSE, val |-> None,    err |-> Some(e)]

\* Trace::new; `backtrace` is the address of the Box<SourceBacktrace>
Trace(error, backtrace) == [error |-> error, backtrace |-> backtrace]

\* Trace::into_error
into_error(self) == self.error

\* Trace::convert
convert(self, O) == [error |-> From(self.error, O), backtrace |-> self.backtrace]

(***************************************************************************)
(* Activations of functions that return a TraceResult.                     *)
(***************************************************************************)
Lines == {49, 55}
Files == {"examples/basic.rs"}
Values == {0, 42}
RaisedErrors == {MyErrorType("ErrorOne"), IoError("NotFound")}
PlainResults == {Ok(3), Err(IoError("NotFound"))}

Activation(ty, file) ==
    [ty |-> ty, file |-> file, pending |-> None]

Top == stack[Len(stack)]
Pop(stk) == SubSeq(stk, 1, Len(stk) - 1)

\* Backtrace::new(): the frames of the call stack at the capture, innermost
\* first: the capture machinery itself, the function executing `line`, then
\* its callers at the line of their pending call.
Capture(stk, line) ==
    <<Frame(<<symTrace>>, <<>>), Frame(<<symNew>>, <<>>), Frame(<<symSrcNew>>, <<>>)>>
    \o [i \in 1..Len(stk) |->
          LET a == stk[Len(stk) + 1 - i]
          IN  Frame(<<Sym(Some(Utf8(str_main)), Some(64 + Len(stk) + 1 - i), Some(a.file),
                          Some(IF i = 1 THEN line ELSE Unwrap(a.pending).line))>>, <<>>)]

\* SourceBacktrace::new(line, file)
SourceBacktrace_new(line, file, stk) == SourceBacktrace(Capture(stk, line), line, file)

\* What executing a macro does to the enclosing function and to memory.
Continue(val, hp, caps) ==
    [flow |-> "continue", val |-> val, result |-> None, heap |-> hp, captures |-> caps]
Return(result, hp, caps) ==
    [flow |-> "return", val |-> None, result |-> Some(result), heap |-> hp, captures |-> caps]

\* Box::new: the lowest free address
Alloc(hp) == Len(hp) + 1

\* drop(Box): with a single owner the dropped box is the last allocation
Free(hp, a) == SubSeq(hp, 1, a - 1) \o SubSeq(hp, a + 1, Len(hp))

\* trace_error!($err) evaluated at `line` of `file`, boxed at a fresh address
trace_error_helperSite(err, O, line, file, stk, hp, caps) ==
    Return(Err(Trace(From(err, O), Alloc(hp))),
           Append(hp, SourceBacktrace_new(247, "src/backtrace.rs", stk)), caps + 1)

trace_error(err, O, line, file, stk, hp, caps) ==
    Return(Err(Trace(From(err, O), Alloc(hp))),
           Append(hp, SourceBacktrace_new(line, file, stk)), caps + 1)

\* throw!($err) => return trace_error!($err)
throw(err, O, line, file, stk, hp, caps) == trace_error(err, O, line, file, stk, hp, caps)

\* try_throw!($res)
try_throw(res, O, line, file, stk, hp, caps) ==
    IF res.ok THEN Continue(res.val, hp, caps)
    ELSE throw(Unwrap(res.err), O, line, file, stk, hp, caps)

\* try_rethrow!($res)
try_rethrow_recaptures(res, O, line, file, stk, hp, caps) ==
    IF res.ok THEN Continue(res.val, hp, caps)
    ELSE throw(into_error(Unwrap(res.err)), O, line, file, stk, hp, caps)

try_rethrow(res, O, line, file, stk, hp, caps) ==
    IF res.ok THEN Continue(res.val, hp, caps)
    ELSE Return(Err(convert(Unwrap(res.err), O)), hp, caps)

\* The effect of a macro's outcome on the enclosing activation.
Apply(out) ==
    /\ heap' = out.heap
    /\ captures' = out.captures
    /\ IF out.flow = "continue"
       THEN /\ stack' = [stack EXCEPT ![Len(stack)] = [@ EXCEPT !.pending = None]]
            /\ ret' = None
       ELSE /\ stack' = Pop(stack)
            /\ ret' = out.result

FmtIdle ==
    /\ phase = "idle"
    /\ bt = SourceBacktrace(<<>>, 0, "")
    /\ call = NoCall
    /\ traces = EmptyString

InitProp ==
    /\ FmtIdle
    /\ \E ty \in ErrTypes, file \in Files : stack = <<Activation(ty, file)>>
    /\ ret = None
    /\ heap = <<>>
    /\ captures = 0
    /\ events = [op |-> "none", branch |-> "none", line |-> 0, arg |-> None, val |-> None,
                 origin |-> None]

Running == stack # <<>> /\ Top.pending = None /\ ret = None

\* The container now in flight, as it was when it was created.
Origin(out, by, line, file) ==
    IF out.flow = "return" /\ ~Unwrap(out.result).ok
    THEN LET t == Unwrap(Unwrap(out.result).err)
         IN  Some([by |-> by, box |-> t.backtrace, line |-> line, file |-> file,
                   snapshot |-> out.heap[t.backtrace].backtrace, hops |-> 0])
    ELSE None

\* A function starts evaluating `callee()` inside try_rethrow!(..) or a match.
Call(macro, line, ty, file) ==
    /\ Running
    /\ Len(stack) < MaxDepth
    /\ stack' = Append([stack EXCEPT ![Len(stack)] =
                           [@ EXCEPT !.pending = Some([macro |-> macro, line |-> line])]],
                       Activation(ty, file))
    /\ events' = [op |-> "call", branch |-> "none", line |-> line, arg |-> None, val |-> None,
                  origin |-> None]
    /\ UNCHANGED <<ret, heap, captures, fmtVars>>

\* Ok(v) as the function's last expression
ReturnOk(v) ==
    /\ Running
    /\ stack' = Pop(stack)
    /\ ret' = Some(Ok(v))
    /\ events' = [op |-> "ok", branch |-> "Ok", line |-> 0, arg |-> None, val |-> None,
                  origin |-> None]
    /\ UNCHANGED <<heap, captures, fmtVars>>

\* throw!(err) at `line`
Throw(err, line) ==
    /\ Running
    /\ captures < MaxCaptures
    /\ LET out == throw(err, Top.ty, line, Top.file, stack, heap, captures)
       IN  /\ Apply(out)
           /\ events' = [op |-> "throw", branch |-> "Err", line |-> line,
                         arg |-> Some(Err(err)), val |-> out.val,
                         origin |-> Origin(out, "throw", line, Top.file)]
    /\ UNCHANGED fmtVars

\* try_throw!(res) at `line`, res a plain Result
TryThrow(res, line) ==
    /\ Running
    /\ captures < MaxCaptures
    /\ LET out == try_throw(res, Top.ty, line, Top.file, stack, heap, captures)
       IN  /\ Apply(out)
           /\ events' = [op |-> "try_throw", branch |-> IF res.ok THEN "Ok" ELSE "Err",
                         line |-> line, arg |-> Some(res), val |-> out.val,
                         origin |-> Origin(out, "try_throw", line, Top.file)]
    /\ UNCHANGED fmtVars

\* try_rethrow!(callee()) once callee() has returned
TryRethrow ==
    /\ stack # <<>>
    /\ ret # None
    /\ Top.pending # None
    /\ Unwrap(Top.pending).macro = "try_rethrow"
    /\ LET res == Unwrap(ret)
           out == try_rethrow(res, Top.ty, Unwrap(Top.pending).line, Top.file,
                              stack, heap, captures)
       IN  /\ Apply(out)
           /\ events' = [op |-> "try_rethrow", branch |-> IF res.ok THEN "Ok" ELSE "Err",
                         line |-> Unwrap(Top.pending).line, arg |-> ret, val |-> out.val,
                         origin |-> IF res.ok THEN None
                                    ELSE Some([Unwrap(events.origin) EXCEPT !.hops = @ + 1])]
    /\ UNCHANGED fmtVars

\* match callee() { Ok(_) => .., Err(err) => println!(..) }: the caller handles
\* the result itself and goes on
MatchResult ==
    /\ stack # <<>>
    /\ ret # None
    /\ Top.pending # None
    /\ Unwrap(Top.pending).macro = "match"
    /\ stack' = [stack EXCEPT ![Len(stack)] = [@ EXCEPT !.pending = None]]
    /\ ret' = None
    /\ heap' = IF Unwrap(ret).ok THEN heap ELSE Free(heap, Unwrap(Unwrap(ret).err).backtrace)
    /\ events' = [op |-> "match", branch |-> IF Unwrap(ret).ok THEN "Ok" ELSE "Err",
                  line |-> Unwrap(Top.pending).line, arg |-> ret, val |-> Unwrap(ret).val,
                  origin |-> None]
    /\ UNCHANGED <<captures, fmtVars>>

\* main: match example() { .. }
MainMatch ==
    /\ stack = <<>>
    /\ ret # None
    /\ ret' = None
    /\ heap' = IF Unwrap(ret).ok THEN heap ELSE Free(heap, Unwrap(Unwrap(ret).err).backtrace)
    /\ events' = [op |-> "main", branch |-> IF Unwrap(ret).ok THEN "Ok" ELSE "Err",
                  line |-> 61, arg |-> ret, val |-> Unwrap(ret).val, origin |-> None]
    /\ UNCHANGED <<stack, captures, fmtVars>>

NextProp ==
    \/ \E macro \in {"try_rethrow", "match"}, line \in Lines, ty \in ErrTypes, file \in Files :
           Call(macro, line, ty, file)
    \/ \E v \in Values : ReturnOk(v)
    \/ \E err \in RaisedErrors, line \in Lines : Throw(err, line)
    \/ \E res \in PlainResults, line \in Lines : TryThrow(res, line)
    \/ TryRethrow
    \/ MatchResult
    \/ MainMatch

SpecProp == InitProp /\ [][NextProp]_vars

(***************************************************************************)
(* Properties of the propagation protocol.                                 *)
(***************************************************************************)
Failing == ret # None /\ ~ret[1].ok
InFlight == ret[1].err[1]

\* C1: a container created at file F, line L still has, after any number of
\* try_rethrow! steps, the same box holding the same snapshot stamped F and L.
C1_Provenance ==
    Failing =>
        /\ events.origin # None
        /\ InFlight.backtrace = events.origin[1].box
        /\ InFlight.backtrace \in 1..Len(heap)
        /\ heap[InFlight.backtrace].line = events.origin[1].line
        /\ heap[InFlight.backtrace].file = events.origin[1].file
        /\ heap[InFlight.backtrace].backtrace = events.origin[1].snapshot

\* C1 witness: a container raised by throw! that two try_rethrow! steps have
\* converted to another error type.
C1_Witness ==
    /\ Failing
    /\ events.origin # None
    /\ events.origin[1].by = "throw"
    /\ events.origin[1].hops >= 2
    /\ InFlight.error.inner # None

\* C2: only throw! and the failure branch of try_throw! capture a stack;
\* try_rethrow! never captures, and a success branch hands the wrapped value
\* to the enclosing function, which goes on, without a capture.
C2_CaptureAccounting ==
    [][/\ captures' # captures =>
              /\ captures' = captures + 1
              /\ events'.op \in {"throw", "try_throw"}
              /\ events'.branch = "Err"
       /\ events'.op = "try_rethrow" => (captures' = captures /\ heap' = heap)
       /\ (events'.op \in {"try_rethrow", "try_throw"} /\ events'.branch = "Ok") =>
              /\ captures' = captures
              /\ events'.val = events'.arg[1].val
              /\ Len(stack') = Len(stack)
              /\ stack'[Len(stack')].pending = None
              /\ ret' = None]_vars

\* C2 witness: try_rethrow!(basic()) with basic returning Ok(42).
C2_Witness ==
    /\ events.op = "try_rethrow"
    /\ events.branch = "Ok"
    /\ events.val = <<42>>
    /\ captures = 0
    /\ stack # <<>>

\* C3: try_throw! on a failed plain result returns from the enclosing function
\* at once with the error converted by From, described as the underlying
\* error, and a backtrace captured here and stamped with the invocation's
\* file and line.
C3_ForwardForeign ==
    [][(events'.op = "try_throw" /\ events'.branch = "Err") =>
          /\ stack' = SubSeq(stack, 1, Len(stack) - 1)
          /\ ret' # None
          /\ ~ret'[1].ok
          /\ LET t == ret'[1].err[1]
                 underlying == events'.arg[1].err[1]
             IN  /\ t.error = From(underlying, stack[Len(stack)].ty)
                 /\ description(t.error) = description(underlying)
                 /\ t.backtrace \notin 1..Len(heap)
                 /\ t.backtrace \in 1..Len(heap')
                 /\ captures' = captures + 1
                 /\ heap'[t.backtrace].line = events'.line
                 /\ heap'[t.backtrace].file = stack[Len(stack)].file
                 /\ heap'[t.backtrace].backtrace[4].symbols[1].lineno = <<events'.line>>
                 /\ Len(heap'[t.backtrace].backtrace) = 3 + Len(stack)]_vars

\* C3 witness: a nested function returned a failed try_throw! whose error was
\* wrapped by From.
C3_Witness ==
    /\ events.op = "try_throw"
    /\ events.branch = "Err"
    /\ Failing
    /\ stack # <<>>
    /\ InFlight.error.inner # None

(***************************************************************************)
(* Properties of the formatting engine.                                    *)
(***************************************************************************)
Body == traces.body
Frames == bt.backtrace

\* The symbols of the snapshot, innermost first, as the capture recorded them.
Captured == CollectSymbols(Frames, 1, <<>>)

\* The order in which the last format call visited the symbols.
Visited == IF call.reverse THEN Rev(Captured) ELSE Captured

\* The symbol's name is valid UTF-8 and contains "Backtrace::new".
HasCtorName(symbol) ==
    /\ symbol.name # None
    /\ symbol.name[1].utf8
    /\ \E i \in 1..Len(symbol.name[1].bytes) :
           /\ i + Len(str_new) - 1 <= Len(symbol.name[1].bytes)
           /\ \A k \in 1..Len(str_new) : symbol.name[1].bytes[i + k - 1] = str_new[k]

EmittedRefs == {Body[i].symbol : i \in 1..Len(Body)}

\* C4 (as claimed): the leading skipped entries of the innermost-first capture
\* sequence (the first IGNORE_COUNT symbols for SourceBacktrace::format, in
\* forward and in reverse order; the first two frames for format_trace) never
\* appear in the output, and the first visible index is 0.
C4_FrameSkipAsClaimed ==
    /\ phase = "formatted" =>
          /\ \A k \in 1..Len(Captured) : k <= 1 => Captured[k] \notin EmittedRefs
          /\ Len(Body) > 0 => Body[1].count = 0
    /\ phase = "traced" =>
          /\ \A r \in EmittedRefs : r.frame > 2
          /\ Len(Body) > 0 => Body[1].count = 0

\* C5: the indices passed to the per-symbol formatter are 0, 1, ..., k-1 in
\* emission order, for format (both orders) and for format_trace.
C5_FrameNumbering ==
    phase \in {"formatted", "traced"} =>
        \A i \in 1..Len(Body) : Body[i].count = i - 1

\* C5 witness: a format that skipped the first symbol, elided a constructor
\* symbol and then emitted a symbol.
C5_Witness ==
    /\ phase = "formatted"
    /\ Len(Body) >= 1
    /\ \E k \in 2..Len(Visited) :
          /\ HasCtorName(Deref(Frames, Visited[k]))
          /\ \E m \in (k + 1)..Len(Visited) : Visited[m] \in EmittedRefs

\* C6 (as claimed): emitted = total resolved symbols - 1 - symbols whose name
\* contains "Backtrace::new", for every snapshot and both orders.
C6_FrameCountAsClaimed ==
    phase = "formatted" =>
        Len(Body) = Len(Captured) - 1
                    - Cardinality({k \in 1..Len(Captured) :
                                      HasCtorName(Deref(Frames, Captured[k]))})

\* C6 (amended): when the snapshot has no symbol nothing is emitted; otherwise
\* emitted = total - 1 - the symbols with a constructor name other than the
\* one symbol consumed by the skip (the first symbol visited).
C6_FrameCount ==
    phase = "formatted" =>
        Len(Body) = IF Len(Captured) = 0 THEN 0
                    ELSE Len(Captured) - 1
                         - Cardinality({k \in 2..Len(Visited) :
                                           HasCtorName(Deref(Frames, Visited[k]))})

\* C6 witness: a snapshot whose first visited symbol and one later symbol both
\* carry a constructor name, and something is emitted.
C6_Witness ==
    /\ phase = "formatted"
    /\ Len(Body) >= 1
    /\ HasCtorName(Deref(Frames, Visited[1]))
    /\ \E k \in 2..Len(Visited) : HasCtorName(Deref(Frames, Visited[k]))

\* Number of emitted entries of a body whose symbol equals s.
Occurrences(body, s) ==
    Cardinality({i \in 1..Len(body) : Deref(Frames, body[i].symbol) = s})

\* C7 (as claimed): forward and reverse order emit the same multiset of symbols.
C7_OrderSymmetryAsClaimed ==
    phase = "formatted" =>
        \A s \in SymbolPool :
            Occurrences(Body, s)
              = Occurrences(Format(bt, call.header, ~call.reverse, call.thread).body, s)

\* C9 (as claimed): in reverse order frames are emitted outermost first and the
\* symbols of one frame keep the sub-order the resolver yielded.
C9_ReverseAsClaimed ==
    (phase = "formatted" /\ call.reverse) =>
        \A i, j \in 1..Len(Body) : i < j =>
            /\ Body[i].symbol.frame >= Body[j].symbol.frame
            /\ Body[i].symbol.frame = Body[j].symbol.frame
                  => Body[i].symbol.sub < Body[j].symbol.sub

\* C9 (amended): in reverse order the whole collected sequence is walked
\* backward: frames are emitted outermost first and the symbols of one frame
\* are emitted in the reverse of the sub-order the resolver yielded.
C9_Reverse ==
    (phase = "formatted" /\ call.reverse) =>
        \A i, j \in 1..Len(Body) : i < j =>
            /\ Body[i].symbol.frame >= Body[j].symbol.frame
            /\ Body[i].symbol.frame = Body[j].symbol.frame
                  => Body[i].symbol.sub > Body[j].symbol.sub

\* C9 witness: a reverse format that emitted two symbols of the same frame.
C9_Witness ==
    /\ phase = "formatted"
    /\ call.reverse
    /\ \E i, j \in 1..Len(Body) :
          i < j /\ Body[i].symbol.frame = Body[j].symbol.frame

\* C10: in both orders no emitted symbol has a name containing
\* "Backtrace::new"; every other symbol after the skipped one is emitted
\* (symbols without a name or with a non-UTF-8 name included), and an elided
\* symbol consumes no index.
C10_SelfFilter ==
    phase = "formatted" =>
        /\ \A r \in EmittedRefs : ~HasCtorName(Deref(Frames, r))
        /\ \A k \in 2..Len(Visited) :
              ~HasCtorName(Deref(Frames, Visited[k])) => Visited[k] \in EmittedRefs
        /\ \A k \in 2..Len(Visited) : \A i \in 1..Len(Body) :
              Body[i].symbol = Visited[k] =>
                  Body[i].count = Cardinality({m \in 2..(k - 1) :
                                      ~HasCtorName(Deref(Frames, Visited[m]))})

\* C10 witness: "SourceBacktrace::new" was elided and a symbol whose
\* non-UTF-8 name holds the bytes of "Backtrace::new" was emitted.
C10_Witness ==
    /\ phase = "formatted"
    /\ \E k \in 2..Len(Visited) : Deref(Frames, Visited[k]) = symSrcNew
    /\ \E r \in EmittedRefs : Deref(Frames, r) = symRaw

\* C8: DefaultBacktraceFmt renders the four location forms, `<unknown>` for a
\* missing or non-UTF-8 name and the null address for a missing address.
C8_Placeholder ==
    phase = "rendered" =>
        LET f == bt.symbol.filename
            l == bt.symbol.lineno
            n == bt.symbol.name
        IN  /\ (f # None /\ l # None) =>
                   traces.end = <<"at ", f[1], ":", ToString(l[1]), "\n">>
            /\ (f # None /\ l = None) => traces.end = <<"at ", f[1], "\n">>
            /\ (f = None /\ l # None) =>
                   traces.end = <<"at ", "<anonymous>", ":", ToString(l[1]), "\n">>
            /\ (f = None /\ l = None) => traces.end = <<"at ", "<anonymous>", "\n">>
            /\ (n = None \/ (n # None /\ ~n[1].utf8)) => traces.begin.name = str_unknown
            /\ (n # None /\ n[1].utf8) => traces.begin.name = n[1].bytes
            /\ traces.begin.addr = (IF bt.symbol.addr = None THEN 0 ELSE bt.symbol.addr[1])
            /\ traces.begin.count = bt.count

\* C8 witness: a symbol with no name, no address and no file but a line.
C8_Witness ==
    /\ phase = "rendered"
    /\ bt.symbol.name = None
    /\ bt.symbol.addr = None
    /\ bt.symbol.filename = None
    /\ bt.symbol.lineno # None
    /\ traces.end = <<"at ", "<anonymous>", ":", "47", "\n">>

====
